---- MODULE Spec2Model ----
(***************************************************************************)
(* Model of the spectral-Galerkin elasticity solvers                       *)
(* (Solver/solve_elastic_problem.py: solve_cauchy_elasticity,              *)
(* solve_gradient_elasticity) and of the stress post-processing            *)
(* (Solver/stresses.py: cauchy_stresses, hyper_stresses,                   *)
(* traction_vector_gradient).                                              *)
(*                                                                         *)
(* A solver call is a sequential pipeline; pc is the position inside the   *)
(* function body.  Real numbers are exact rationals <<num, den>>.  A       *)
(* boundary / body-force value is a pair <<c0, c1>> standing for the       *)
(* expression c0 + c1*x in one coordinate symbol x (a plain float has      *)
(* c1 = 0).  The spectral library (shenfun) is outside the repository; its *)
(* operations are represented by the small linear stand-ins defined where  *)
(* they are called.                                                        *)
(***************************************************************************)
EXTENDS Integers, Sequences, FiniteSets, TLC

\* ------------------------------------------------------------------ bounds
\* largest constant part of a prescribed boundary value
MaxVal == 1
\* reference scales nondim_disp, nondim_length, nondim_mat_param range over
\* the powers of two 2^0 .. 2^MaxScale
MaxScale == 1
\* largest discretization order N (N free coefficients per component)
MaxN == 2
\* largest degree, in each coordinate, of a displacement polynomial
MaxDeg == 3
\* number of displacement components / axes: the solvers and the traction
\* routine build VectorSpace([T_none, T_none])
Dim == 2

\* ------------------------------------------------------- rational numbers
RECURSIVE GCD(_, _)
GCD(a, b) == IF b = 0 THEN a ELSE GCD(b, a % b)

Abs(x) == IF x < 0 THEN -x ELSE x

\* the fraction n/d in lowest terms with positive denominator
Rat(n, d) ==
  LET g == GCD(Abs(n), Abs(d))
      s == IF d < 0 THEN -1 ELSE 1
  IN  <<(s * n) \div g, (s * d) \div g>>

R(n) == <<n, 1>>
Zero == R(0)
RAdd(a, b) == Rat(a[1] * b[2] + b[1] * a[2], a[2] * b[2])
RNeg(a) == <<-a[1], a[2]>>
RSub(a, b) == RAdd(a, RNeg(b))
RMul(a, b) == Rat(a[1] * b[1], a[2] * b[2])
\* what a float division by 0.0 gives: no value, the exception
ZeroDivisionError == <<0, 0>>
\* a / b on floats.  The quotient is the exact fraction: every divisor of the
\* calls is a power of two and every operand a small dyadic fraction, for
\* which the division of doubles is exact.
RDiv(a, b) ==
  IF a = ZeroDivisionError \/ b = ZeroDivisionError \/ b[1] = 0
    THEN ZeroDivisionError
    ELSE Rat(a[1] * b[2], a[2] * b[1])

RECURSIVE RSum(_)
RSum(s) == IF s = <<>> THEN Zero ELSE RAdd(Head(s), RSum(Tail(s)))

\* ------------------------------------------------- values and expressions
\* c0 + c1*x
Val(c0, c1) == <<R(c0), R(c1)>>
VZero == Val(0, 0)
IsZeroVal(v) == v[1] = Zero /\ v[2] = Zero

Comps == 1..Dim
Pairs == {<<i, j>> : i \in Comps, j \in Comps}
Triples == {<<i, j, k>> : i \in Comps, j \in Comps, k \in Comps}

\* ------------------------------------------------- boundary-condition entries
\* One (component, axis) entry of boundary_conditions.  kind is the Python
\* shape of the entry: "tuple" (a tuple of values), "list" ([label, values]),
\* "tagged" ((label, values), produced by the nondimensionalizer), "str" (a
\* named condition) or "None".
BCEntry(kind, label, labeltype, vals, valstype) ==
  [kind |-> kind, label |-> label, labeltype |-> labeltype,
   vals |-> vals, valstype |-> valstype]
BCNone == BCEntry("None", "", "str", <<>>, "tuple")
BCStr(l) == BCEntry("str", l, "str", <<>>, "tuple")
BCTuple(vs) == BCEntry("tuple", "", "str", vs, "tuple")
BCList(l, vs) == BCEntry("list", l, "str", vs, "tuple")
BCTagged(l, vs) == BCEntry("tagged", l, "str", vs, "tuple")

\* ------------------------------------------------------------ the arguments
Solvers == {"cauchy", "gradient"}
Arg(type, val) == [type |-> type, val |-> val]

BVals == {Val(c0, c1) : c0 \in 0..MaxVal, c1 \in 0..1}
Scales == {2 ^ k : k \in 0..MaxScale}
\* the largest of them
TopScale == 2 ^ MaxScale

\* ((0., u0)) and the four-value pair of the biharmonic basis
Dirichlet(v) == BCTuple(<<VZero, v>>)
Biharmonic(v) == BCTuple(<<VZero, v, VZero, VZero>>)
PlainEntry(s, v) == IF s = "cauchy" THEN Dirichlet(v) ELSE Biharmonic(v)

KindEntries ==
  { Dirichlet(VZero), Dirichlet(Val(1, 0)), Biharmonic(VZero), BCNone,
    BCStr("upperdirichlet"), BCList("upperdirichlet", <<Val(1, 1)>>) }

BCMatrix(e11, e12, e21, e22) == <<<<e11, e12>>, <<e21, e22>>>>
AllPlain(s, v) == [i \in Comps |-> [j \in Comps |-> PlainEntry(s, v)]]
\* the driver's (((0., u0), None), (None, 'upperdirichlet'))
MixedBCs == BCMatrix(Dirichlet(Val(1, 0)), BCNone, BCNone, BCStr("upperdirichlet"))

\* three representative matrices: homogeneous plain, non-homogeneous plain, mixed
BCChoice(s, which) ==
  CASE which = "hom" -> AllPlain(s, VZero)
    [] which = "nonhom" -> AllPlain(s, Val(1, 1))
    [] OTHER -> MixedBCs

MatParams(s, cs) == IF s = "cauchy" THEN <<R(2), R(1)>> ELSE <<R(2), R(1)>> \o cs
AllC == <<R(1), R(1), R(1), R(1), R(1)>>

DefaultCall(s) ==
  [ solver |-> s,
    N |-> Arg("int", MaxN),
    dom |-> Arg("tuple", <<<<R(0), R(4)>>, <<R(0), R(2)>>>>),
    boundary_conditions |-> Arg("tuple", AllPlain(s, Val(1, 0))),
    body_forces |-> Arg("tuple", <<Val(1, 1), Val(0, 1)>>),
    material_parameters |-> Arg("tuple", MatParams(s, AllC)),
    nondim_disp |-> Arg("float", R(TopScale)),
    nondim_length |-> Arg("float", R(TopScale)),
    nondim_mat_param |-> Arg("float", R(TopScale)),
    measure_time |-> FALSE,
    compute_error |-> FALSE,
    u_ana |-> Arg("NoneType", <<>>) ]

\* every kind of entry at every place of the matrix
CallsKinds ==
  { [DefaultCall(s) EXCEPT !.boundary_conditions = Arg("tuple", m)] :
      s \in Solvers, m \in [Comps -> [Comps -> KindEntries]] }

\* plain Dirichlet data with every value, every order N
CallsValues ==
  { [DefaultCall(s) EXCEPT
       !.boundary_conditions =
          Arg("tuple", [i \in Comps |-> [j \in Comps |-> PlainEntry(s, m[i][j])]]),
       !.N = Arg("int", n)] :
      s \in Solvers, m \in [Comps -> [Comps -> BVals]], n \in 1..MaxN }

\* every zero pattern of c1..c5 under every triple of reference scales
CallsParams ==
  { [DefaultCall(s) EXCEPT
       !.material_parameters = Arg("tuple", MatParams(s, cs)),
       !.nondim_disp = Arg("float", R(sc[1])),
       !.nondim_length = Arg("float", R(sc[2])),
       !.nondim_mat_param = Arg("float", R(sc[3])),
       !.boundary_conditions = Arg("tuple", BCChoice(s, w))] :
      s \in Solvers, cs \in [1..5 -> {R(0), R(3)}],
      sc \in Scales \X Scales \X Scales,
      w \in {"hom", "nonhom", "mixed"} }

\* the diagnostic switches
CallsFlags ==
  { [DefaultCall(s) EXCEPT
       !.measure_time = mt, !.compute_error = ce, !.u_ana = ua,
       !.boundary_conditions = Arg("tuple", BCChoice(s, w))] :
      s \in Solvers, mt \in BOOLEAN, ce \in BOOLEAN,
      ua \in { Arg("NoneType", <<>>), Arg("tuple", <<Val(0, 1), Val(1, 0)>>),
               Arg("list", <<Val(0, 1), Val(1, 0)>>) },
      w \in {"hom", "mixed"} }

\* every combination of argument types, and both tuple lengths
CallsTypes ==
  { [DefaultCall(s) EXCEPT
       !.N = Arg(ty[1], MaxN),
       !.dom = Arg(ty[2], @.val),
       !.boundary_conditions = Arg(ty[3], @.val),
       !.body_forces = Arg(ty[4], @.val),
       !.nondim_disp = Arg(ty[5], @.val),
       !.nondim_length = Arg(ty[6], @.val),
       !.nondim_mat_param = Arg(ty[7], @.val),
       !.material_parameters = Arg(ty[8], MatParams(ls, AllC))] :
      s \in Solvers, ls \in Solvers,
      ty \in {"int", "float"} \X {"tuple", "list"} \X {"tuple", "list"}
            \X {"tuple", "list"} \X {"float", "int"} \X {"float", "int"}
            \X {"float", "int"} \X {"tuple", "list"} }

\* tagged entries [label, values] whose label is not a str or whose values
\* are not a tuple
CallsTagged ==
  { [DefaultCall(s) EXCEPT
       !.boundary_conditions =
          Arg("tuple", BCMatrix(PlainEntry(s, VZero), BCNone,
                BCEntry("list", "upperdirichlet", lt, <<Val(1, 0)>>, vt), e))] :
      s \in Solvers, lt \in {"str", "int"}, vt \in {"tuple", "list"},
      e \in KindEntries }

\* matrices whose values are floats: in every entry, in the first entry, in
\* the second row only, nowhere
FloatBCs(s, which) ==
  CASE which = "plain" -> AllPlain(s, Val(1, 0))
    [] which = "mixed" -> MixedBCs
    [] which = "second row" ->
         BCMatrix(BCNone, BCStr("upperdirichlet"), PlainEntry(s, Val(1, 0)), BCNone)
    [] OTHER ->
         BCMatrix(BCNone, BCStr("upperdirichlet"), BCStr("upperdirichlet"), BCNone)

\* a reference scale of 0.0, with boundary data that are floats, named
\* conditions or None
CallsZeroScale ==
  { [DefaultCall(s) EXCEPT
       !.nondim_disp = Arg("float", R(sc[1])),
       !.nondim_length = Arg("float", R(sc[2])),
       !.nondim_mat_param = Arg("float", R(sc[3])),
       !.boundary_conditions = Arg("tuple", FloatBCs(s, w))] :
      s \in Solvers,
      sc \in {z \in {0, TopScale} \X {0, TopScale} \X {0, TopScale} :
                \E n \in 1..3 : z[n] = 0},
      w \in {"plain", "mixed", "second row", "named"} }

Calls ==
  CallsKinds \cup CallsValues \cup CallsParams \cup CallsFlags
    \cup CallsTypes \cup CallsTagged \cup CallsZeroScale

\* ------------------------------------------------------------------ state
VARIABLES
  pc,                   \* position in the solver body
  args,                 \* the arguments of the call
  dom_dimless, lambd, mu, c, bcs_dimless, body_forces_dimless,
  only_dirichlet_bcs, nonhomogeneous_bcs,
  bases,                \* the bases built so far, row by row (V)
  matrices, b,          \* operator list and right-hand side
  bc_mats, uh_hat, b_add, u_hat,
  u,                    \* <<>> or <<the physical field>>
  log,                  \* names of the diagnostic files appended to, in order
  returned              \* <<>> or <<the returned field>>

solver_vars ==
  <<pc, args, dom_dimless, lambd, mu, c, bcs_dimless, body_forces_dimless,
    only_dirichlet_bcs, nonhomogeneous_bcs, bases, matrices, b, bc_mats,
    uh_hat, b_add, u_hat, u, log, returned>>

VARIABLES
  spc,                  \* position in the post-processing sequence
  sargs,                \* the displacement field, constants and normal used
  T2,                   \* <<>> or <<the Cauchy stress tensor>>
  T3,                   \* <<>> or <<the hyper-stress tensor>>
  divT3, divnT3, divtT3,
  t                     \* <<>> or <<the traction vector>>

stress_vars == <<spc, sargs, T2, T3, divT3, divnT3, divtT3, t>>

\* ------------------------------------------------------- library stand-ins
\* FunctionSpace(N, family='legendre', bc=bc, domain=domain): the class of the
\* basis follows the shape of bc, and the basis reports non-zero boundary data
ClassOfBC(bc) ==
  CASE bc.kind = "None" -> "Orthogonal"
    [] bc.kind = "tuple" /\ Len(bc.vals) = 2 -> "ShenDirichlet"
    [] bc.kind = "tuple" /\ Len(bc.vals) = 4 -> "ShenBiharmonic"
    [] bc.label = "upperdirichlet" -> "UpperDirichlet"
    [] OTHER -> "LowerDirichlet"

FunctionSpace(N, bc, domain) ==
  [ N |-> N, bc |-> bc, domain |-> domain, class |-> ClassOfBC(bc),
    has_nonhomogeneous_bcs |-> \E n \in 1..Len(bc.vals) : ~IsZeroVal(bc.vals[n]) ]

\* A coefficient array of one component: N free coefficients followed by the
\* boundary coefficients, one slot per (axis j, prescribed value e, power m
\* of the boundary coordinate).
NBnd == Dim * 4 * 2
CoefLen(N) == N + NBnd
BndSlot(N, j, e, m) == N + ((j - 1) * 4 + (e - 1)) * 2 + m + 1

\* basis of component i along axis j
BasisOf(V, i, j) == V[(i - 1) * Dim + j]

\* Function(V).set_boundary_dofs(): the prescribed boundary coefficients,
\* every free coefficient zero
set_boundary_dofs(V, N) ==
  [i \in Comps |-> [k \in 1..CoefLen(N) |->
     IF k <= N THEN Zero
     ELSE LET q == k - N - 1
              m == q % 2
              e == ((q \div 2) % 4) + 1
              j == (q \div 8) + 1
              vals == BasisOf(V, i, j).bc.vals
          IN  IF e <= Len(vals) THEN vals[e][m + 1] ELSE Zero]]

\* the sum of the coefficients of an operator list: the diagonal entry that
\* stands for the assembled block operator
DiagSum(ms) == RSum([n \in 1..Len(ms) |-> ms[n].coef])

\* extract_bc_matrices([matrices]): the boundary part of each operator
extract_bc_matrices(ms) == [n \in 1..Len(ms) |-> [ms[n] EXCEPT !.part = "bc"]]

\* BlockMatrix(bc_mats).matvec(x, .): boundary coefficients act on free rows
matvec(BM, x, N) ==
  [i \in Comps |-> [k \in 1..CoefLen(N) |->
     IF k <= N
       THEN RMul(DiagSum(BM),
                 RSum([s \in 1..NBnd |-> x[i][N + s]]))
       ELSE Zero]]

\* BlockMatrix(matrices).solve(rhs): free coefficients, boundary ones zero
solve(M, rhs, N) ==
  [i \in Comps |-> [k \in 1..CoefLen(N) |->
     IF k <= N THEN RDiv(rhs[i][k], DiagSum(M)) ELSE Zero]]

CAdd(x, y) == [i \in DOMAIN x |-> [k \in DOMAIN x[i] |-> RAdd(x[i][k], y[i][k])]]
CNeg(x) == [i \in DOMAIN x |-> [k \in DOMAIN x[i] |-> RNeg(x[i][k])]]
CScale(x, a) == [i \in DOMAIN x |-> [k \in DOMAIN x[i] |-> RMul(x[i][k], a)]]

\* inner(form): one assembled bilinear-form term
inner(grp, form, coef, idx) ==
  <<[grp |-> grp, form |-> form, coef |-> coef, idx |-> idx, part |-> "hom"]>>

\* inner(v, body_forces_quad): the expansion coefficients of the body force
inner_rhs(f, N) ==
  [i \in Comps |-> [k \in 1..CoefLen(N) |->
     IF k <= N /\ k <= 2 THEN f[i][k] ELSE Zero]]

\* ------------------------------------------------------------ pure helpers
RECURSIVE Concat(_)
Concat(ss) == IF ss = <<>> THEN <<>> ELSE Head(ss) \o Concat(Tail(ss))


\* mutant: the assert on the type of nondim_disp left out
InputOKNoDispCheck(a) ==
  /\ a.N.type = "int"
  /\ a.dom.type = "tuple"
  /\ a.boundary_conditions.type = "tuple"
  /\ a.body_forces.type = "tuple"
  /\ a.nondim_length.type = "float"
  /\ a.nondim_mat_param.type = "float"
  /\ a.material_parameters.type = "tuple"
  /\ Len(a.material_parameters.val) = (IF a.solver = "cauchy" THEN 2 ELSE 7)
  /\ (a.compute_error => a.u_ana.type \in {"NoneType", "tuple"})

\* the assert block at the top of both solvers
InputOK(a) ==
  /\ a.N.type = "int"
  /\ a.dom.type = "tuple"
  /\ a.boundary_conditions.type = "tuple"
  /\ a.body_forces.type = "tuple"
  /\ a.nondim_disp.type = "float"
  /\ a.nondim_length.type = "float"
  /\ a.nondim_mat_param.type = "float"
  /\ a.material_parameters.type = "tuple"
  /\ Len(a.material_parameters.val) = (IF a.solver = "cauchy" THEN 2 ELSE 7)
  /\ (a.compute_error => a.u_ana.type \in {"NoneType", "tuple"})

\* the two asserts on a [label, values] entry
TaggedOK(e) == e.kind = "list" => (e.labeltype = "str" /\ e.valstype = "tuple")

\* what sympy gives for an expression divided by 0.0: zoo times the
\* expression, and no exception
ComplexInfinity == <<1, 0>>

\* mutant: the coordinate substitution left out, only the division done
ScaleValueNoSubstitution(v, L, U) ==
  IF v[2] # Zero /\ U = Zero
    THEN <<ComplexInfinity, ComplexInfinity>>
    ELSE <<RDiv(v[1], U), RDiv(v[2], U)>>

\* component.replace(coord, coord*nondim_length) for every free symbol, then
\* component / nondim_disp
\* A value with a coordinate part is a sympy.Expr, one without is a float:
\* the float divided by 0.0 raises, the expression becomes zoo times itself.
ScaleValue(v, L, U) ==
  IF v[2] # Zero /\ U = Zero
    THEN <<ComplexInfinity, ComplexInfinity>>
    ELSE <<RDiv(v[1], U), RDiv(RMul(v[2], L), U)>>

\* whether the division of the value raised
ValueRaises(w) == w[1] = ZeroDivisionError

ScaleValues(vs, L, U) == [n \in 1..Len(vs) |-> ScaleValue(vs[n], L, U)]

\* one entry of bcs_dimless
NondimEntry(e, L, U) ==
  CASE e.kind = "tuple" -> BCTuple(ScaleValues(e.vals, L, U))
    [] e.kind = "list" -> BCTagged(e.label, ScaleValues(e.vals, L, U))
    [] OTHER -> e

\* whether the loop body raises on the entry: a failed assert on a
\* [label, values] entry, or a float value divided by nondim_disp = 0.0
EntryRaises(e, L, U) ==
  \/ ~TaggedOK(e)
  \/ /\ e.kind \in {"tuple", "list"}
     /\ \E n \in 1..Len(e.vals) : ValueRaises(ScaleValue(e.vals[n], L, U))

\* bcs_dimless when the loop raises: the rows appended before the row of the
\* first entry that raises
CompletedRows(bcs, L, U) ==
  LET bad == {i \in Comps : \E j \in Comps : EntryRaises(bcs[i][j], L, U)}
      first == CHOOSE i \in bad : \A k \in bad : i <= k
  IN  [i \in 1..(first - 1) |-> [j \in Comps |-> NondimEntry(bcs[i][j], L, U)]]

\* b[i] with its coordinate replaced, times nondim_length**2/nondim_disp/nondim_mat_param
ForceFactor(L, U, M) == RDiv(RDiv(RMul(L, L), U), M)
ScaleForce(f, L, U, M) ==
  IF ForceFactor(L, U, M) = ZeroDivisionError
    THEN <<ZeroDivisionError, ZeroDivisionError>>
    ELSE <<RMul(f[1], ForceFactor(L, U, M)),
           RMul(RMul(f[2], L), ForceFactor(L, U, M))>>

\* lambd, mu: material_parameters[k]/nondim_mat_param
NondimLame(x, M) == RDiv(x, M)


\* mutant: the division by nondim_length**2 left out
NondimGradientConstantNoLength(x, M, L) == RDiv(x, M)

\* c1..c5: material_parameters[k]/nondim_mat_param/nondim_length**2
NondimGradientConstant(x, M, L) == RDiv(RDiv(x, M), RMul(L, L))

\* the cross terms inner(mu*Dx(u[i], j), Dx(v[j], i)), i outer, j inner
CrossTerms(m) ==
  Concat([n \in 1..(Dim * Dim) |->
    LET i == ((n - 1) \div Dim) + 1
        j == ((n - 1) % Dim) + 1
    IN  inner("cross", "dxu_i_j_dxv_j_i", m, <<i, j>>)])


\* mutant: the two branches on only_dirichlet_bcs exchanged
LameTermsSwapped(only, la, m) ==
  inner("mu", "grad_grad", m, <<>>) \o
    (IF ~only
       THEN inner("lam_mu", "div_div", RAdd(la, m), <<>>)
       ELSE CrossTerms(m) \o inner("lam", "div_div", la, <<>>))

\* the lambda/mu part of the operator list
LameTerms(only, la, m) ==
  inner("mu", "grad_grad", m, <<>>) \o
    (IF only
       THEN inner("lam_mu", "div_div", RAdd(la, m), <<>>)
       ELSE CrossTerms(m) \o inner("lam", "div_div", la, <<>>))

\* one term per index triple (i, j, k), i outer, k inner
TripleTerms(grp, form, coef) ==
  Concat([n \in 1..(Dim * Dim * Dim) |->
    LET i == ((n - 1) \div (Dim * Dim)) + 1
        j == (((n - 1) \div Dim) % Dim) + 1
        k == ((n - 1) % Dim) + 1
    IN  inner(grp, form, coef, <<i, j, k>>)])


\* mutant: the c1 group assembled without its zero test
GradientTermsNoSkip(cc) ==
  inner("c1", "lap_lap", cc[1], <<>>) \o
  (IF cc[2] # Zero THEN inner("c2", "lap_graddiv", cc[2], <<>>) ELSE <<>>) \o
  (IF cc[3] # Zero THEN inner("c3", "graddiv_graddiv", cc[3], <<>>) ELSE <<>>) \o
  (IF cc[4] # Zero THEN TripleTerms("c4", "dxxu_i_dxxv_i", cc[4]) ELSE <<>>) \o
  (IF cc[5] # Zero THEN TripleTerms("c5", "dxxu_j_dxxv_i", cc[5]) ELSE <<>>)

\* the groups A, B, C, D, E of solve_gradient_elasticity
GradientTerms(cc) ==
  (IF cc[1] # Zero THEN inner("c1", "lap_lap", cc[1], <<>>) ELSE <<>>) \o
  (IF cc[2] # Zero THEN inner("c2", "lap_graddiv", cc[2], <<>>) ELSE <<>>) \o
  (IF cc[3] # Zero THEN inner("c3", "graddiv_graddiv", cc[3], <<>>) ELSE <<>>) \o
  (IF cc[4] # Zero THEN TripleTerms("c4", "dxxu_i_dxxv_i", cc[4]) ELSE <<>>) \o
  (IF cc[5] # Zero THEN TripleTerms("c5", "dxxu_j_dxxv_i", cc[5]) ELSE <<>>)


\* mutant: the flag follows the last basis instead of staying cleared
UpdateOnlyDirichletLast(only, basis, s) ==
  basis.class = (IF s = "cauchy" THEN "ShenDirichlet" ELSE "ShenBiharmonic")

\* the flags after one more basis
UpdateOnlyDirichlet(only, basis, s) ==
  IF basis.class # (IF s = "cauchy" THEN "ShenDirichlet" ELSE "ShenBiharmonic")
    THEN FALSE ELSE only

UpdateNonhomogeneous(nonhom, basis) ==
  IF basis.has_nonhomogeneous_bcs THEN TRUE ELSE nonhom


\* mutant: the boundary field applied without the sign flip
BoundaryRHSNotNegated(BM, uh, N) == matvec(BM, uh, N)

\* b_add = BM.matvec(-uh_hat, b_add)
BoundaryRHS(BM, uh, N) == matvec(BM, CNeg(uh), N)


\* mutant: the multiplication by nondim_disp indented under `if measure_time:`
RescaleCoefsWhenTimed(uh, U) == IF args.measure_time THEN CScale(uh, U) ELSE uh

\* mutant: the multiplication by nondim_disp left out
RescaleCoefsForgotten(uh, U) == uh

\* the coefficients of the physical field: u[i] = u_hat[i], then u *= nondim_disp
RescaleCoefs(uh, U) == CScale(uh, U)

\* mutant: u bound to the array of u_hat instead of copied from it, so that
\* u *= nondim_disp scales u_hat as well
SolvedCoefsAliased(uh, U) == CScale(uh, U)

\* u_hat after u[i] = u_hat[i] and u *= nondim_disp: u is a Function of its
\* own, the assignment copies the coefficients, u_hat keeps its values
SolvedCoefsAfterRescale(uh, U) == uh

\* V_dim: the space of the returned field
PhysicalSpace(a) ==
  [n \in 1..(Dim * Dim) |->
    LET i == ((n - 1) \div Dim) + 1
        j == ((n - 1) % Dim) + 1
    IN  FunctionSpace(a.N.val, a.boundary_conditions.val[i][j], a.dom.val[j])]

\* ------------------------------------------------------------ solver steps
N_ == args.N.val
L_ == args.nondim_length.val
U_ == args.nondim_disp.val
M_ == args.nondim_mat_param.val

SolverIdle ==
  /\ dom_dimless = <<>> /\ lambd = Zero /\ mu = Zero /\ c = <<>>
  /\ bcs_dimless = <<>> /\ body_forces_dimless = <<>>
  /\ only_dirichlet_bcs = TRUE /\ nonhomogeneous_bcs = FALSE
  /\ bases = <<>> /\ matrices = <<>> /\ b = <<>> /\ bc_mats = <<>>
  /\ uh_hat = <<>> /\ b_add = <<>> /\ u_hat = <<>> /\ u = <<>>
  /\ log = <<>> /\ returned = <<>>

\* the assert block: a failed assert raises out of the call
CheckInput ==
  /\ pc = "check"
  /\ pc' = IF InputOK(args) THEN "nondim" ELSE "aborted"
  /\ UNCHANGED <<args, dom_dimless, lambd, mu, c, bcs_dimless,
                 body_forces_dimless, only_dirichlet_bcs, nonhomogeneous_bcs,
                 bases, matrices, b, bc_mats, uh_hat, b_add, u_hat, u, log,
                 returned>>
  /\ UNCHANGED stress_vars

\* the statement of the nondimensionalization that raises, "none" if none
\* does: the domain (division by nondim_length), the material parameters
\* (division by nondim_mat_param), the loop over the boundary conditions (an
\* assert or a division by nondim_disp), the body forces (their factor)
NondimRaise(a) ==
  LET bcs == a.boundary_conditions.val
      L == a.nondim_length.val
      U == a.nondim_disp.val
      M == a.nondim_mat_param.val
  IN  IF RDiv(a.dom.val[1][1], L) = ZeroDivisionError THEN "dom"
      ELSE IF NondimLame(a.material_parameters.val[1], M) = ZeroDivisionError
        THEN "material"
      ELSE IF \E i \in Comps, j \in Comps : EntryRaises(bcs[i][j], L, U) THEN "bcs"
      ELSE IF ForceFactor(L, U, M) = ZeroDivisionError THEN "forces"
      ELSE "none"

\* dimensionless domain, material parameters, boundary conditions and body
\* forces, assigned in this order; a statement that raises ends the call and
\* leaves what was assigned before it
Nondimensionalize ==
  /\ pc = "nondim"
  /\ LET bcs == args.boundary_conditions.val
         mp == args.material_parameters.val
         at == NondimRaise(args)
     IN  /\ dom_dimless' =
              IF at = "dom" THEN dom_dimless
              ELSE [i \in Comps |-> [e \in 1..2 |-> RDiv(args.dom.val[i][e], L_)]]
         /\ IF at \in {"dom", "material"}
              THEN UNCHANGED <<lambd, mu, c>>
              ELSE /\ lambd' = NondimLame(mp[1], M_)
                   /\ mu' = NondimLame(mp[2], M_)
                   /\ c' = IF args.solver = "gradient"
                             THEN [n \in 1..5 |->
                                     NondimGradientConstant(mp[n + 2], M_, L_)]
                             ELSE <<>>
         /\ bcs_dimless' =
              CASE at \in {"dom", "material"} -> bcs_dimless
                [] at = "bcs" -> CompletedRows(bcs, L_, U_)
                [] OTHER -> [i \in Comps |-> [j \in Comps |->
                               NondimEntry(bcs[i][j], L_, U_)]]
         /\ IF at = "none"
              THEN /\ body_forces_dimless' =
                        [i \in Comps |-> ScaleForce(args.body_forces.val[i], L_, U_, M_)]
                   /\ only_dirichlet_bcs' = TRUE
                   /\ nonhomogeneous_bcs' = FALSE
                   /\ pc' = "spaces"
              ELSE /\ pc' = "aborted"
                   /\ UNCHANGED <<body_forces_dimless, only_dirichlet_bcs,
                                  nonhomogeneous_bcs>>
  /\ UNCHANGED <<args, bases, matrices, b, bc_mats, uh_hat, b_add, u_hat, u,
                 log, returned>>
  /\ UNCHANGED stress_vars

\* one pass of the inner loop that builds the basis of component i, axis j
BuildSpace ==
  /\ pc = "spaces"
  /\ LET n == Len(bases)
         i == (n \div Dim) + 1
         j == (n % Dim) + 1
         basis == FunctionSpace(N_, bcs_dimless[i][j], dom_dimless[j])
     IN  /\ bases' = Append(bases, basis)
         /\ nonhomogeneous_bcs' = UpdateNonhomogeneous(nonhomogeneous_bcs, basis)
         /\ only_dirichlet_bcs' =
              UpdateOnlyDirichlet(only_dirichlet_bcs, basis, args.solver)
         /\ pc' = IF n + 1 = Dim * Dim THEN "assemble" ELSE "spaces"
  /\ UNCHANGED <<args, dom_dimless, lambd, mu, c, bcs_dimless,
                 body_forces_dimless, matrices, b, bc_mats, uh_hat, b_add,
                 u_hat, u, log, returned>>
  /\ UNCHANGED stress_vars

\* the operator list and the right-hand side
Assemble ==
  /\ pc = "assemble"
  /\ matrices' =
       IF args.solver = "cauchy"
         THEN LameTerms(only_dirichlet_bcs, lambd, mu)
         ELSE GradientTerms(c) \o LameTerms(only_dirichlet_bcs, lambd, mu)
  /\ b' = inner_rhs(body_forces_dimless, N_)
  /\ pc' = "solve"
  /\ UNCHANGED <<args, dom_dimless, lambd, mu, c, bcs_dimless,
                 body_forces_dimless, only_dirichlet_bcs, nonhomogeneous_bcs,
                 bases, bc_mats, uh_hat, b_add, u_hat, u, log, returned>>
  /\ UNCHANGED stress_vars

\* the solve, split into boundary and homogeneous part for non-zero data
Solve ==
  /\ pc = "solve"
  /\ IF nonhomogeneous_bcs
       THEN /\ bc_mats' = extract_bc_matrices(matrices)
            /\ uh_hat' = set_boundary_dofs(bases, N_)
            /\ b_add' = BoundaryRHS(bc_mats', uh_hat', N_)
            /\ u_hat' = CAdd(solve(matrices, CAdd(b, b_add'), N_), uh_hat')
       ELSE /\ u_hat' = solve(matrices, b, N_)
            /\ UNCHANGED <<bc_mats, uh_hat, b_add>>
  /\ pc' = "rescale"
  /\ UNCHANGED <<args, dom_dimless, lambd, mu, c, bcs_dimless,
                 body_forces_dimless, only_dirichlet_bcs, nonhomogeneous_bcs,
                 bases, matrices, b, u, log, returned>>
  /\ UNCHANGED stress_vars

\* the field on the space of the original domain and boundary conditions
Rescale ==
  /\ pc = "rescale"
  /\ u' = <<[space |-> PhysicalSpace(args), coef |-> RescaleCoefs(u_hat, U_)]>>
  /\ u_hat' = SolvedCoefsAfterRescale(u_hat, U_)
  /\ pc' = "time"
  /\ UNCHANGED <<args, dom_dimless, lambd, mu, c, bcs_dimless,
                 body_forces_dimless, only_dirichlet_bcs, nonhomogeneous_bcs,
                 bases, matrices, b, bc_mats, uh_hat, b_add, log, returned>>
  /\ UNCHANGED stress_vars

\* N_time.dat
LogTime ==
  /\ pc = "time"
  /\ log' = IF args.measure_time THEN Append(log, "N_time.dat") ELSE log
  /\ pc' = "error"
  /\ UNCHANGED <<args, dom_dimless, lambd, mu, c, bcs_dimless,
                 body_forces_dimless, only_dirichlet_bcs, nonhomogeneous_bcs,
                 bases, matrices, b, bc_mats, uh_hat, b_add, u_hat, u,
                 returned>>
  /\ UNCHANGED stress_vars

\* the residual check and the comparison with the analytical solution
ComputeError ==
  /\ pc = "error"
  /\ log' =
       IF args.compute_error
         THEN log \o
              <<IF args.solver = "cauchy" THEN "N_errorLameNavier.dat"
                ELSE "N_errorBalanceLinMom.dat">> \o
              (IF args.u_ana.type # "NoneType" THEN <<"N_error_u_ana.dat">> ELSE <<>>)
         ELSE log
  /\ pc' = "return"
  /\ UNCHANGED <<args, dom_dimless, lambd, mu, c, bcs_dimless,
                 body_forces_dimless, only_dirichlet_bcs, nonhomogeneous_bcs,
                 bases, matrices, b, bc_mats, uh_hat, b_add, u_hat, u,
                 returned>>
  /\ UNCHANGED stress_vars

\* return u
Return ==
  /\ pc = "return"
  /\ returned' = u
  /\ pc' = "done"
  /\ UNCHANGED <<args, dom_dimless, lambd, mu, c, bcs_dimless,
                 body_forces_dimless, only_dirichlet_bcs, nonhomogeneous_bcs,
                 bases, matrices, b, bc_mats, uh_hat, b_add, u_hat, u, log>>
  /\ UNCHANGED stress_vars

\* ------------------------------------------------- fields as polynomials
\* A scalar field is a polynomial in (x1, x2): p[a][b] is the coefficient of
\* x1^a x2^b.
Deg == 0..MaxDeg
PZero == [a \in Deg |-> [bb \in Deg |-> Zero]]
Mono(a0, b0) ==
  [a \in Deg |-> [bb \in Deg |-> IF a = a0 /\ bb = b0 THEN R(1) ELSE Zero]]
PAdd(p, q) == [a \in Deg |-> [bb \in Deg |-> RAdd(p[a][bb], q[a][bb])]]
PSub(p, q) == [a \in Deg |-> [bb \in Deg |-> RSub(p[a][bb], q[a][bb])]]
PScale(r, p) == [a \in Deg |-> [bb \in Deg |-> RMul(r, p[a][bb])]]
PNeg(p) == PScale(R(-1), p)

RECURSIVE PSum(_)
PSum(ps) == IF ps = <<>> THEN PZero ELSE PAdd(Head(ps), PSum(Tail(ps)))

\* Dx(p, axis): the derivative along axis 1 or 2
Dx(p, axis) ==
  [a \in Deg |-> [bb \in Deg |->
     IF axis = 1
       THEN (IF a < MaxDeg THEN RMul(R(a + 1), p[a + 1][bb]) ELSE Zero)
       ELSE (IF bb < MaxDeg THEN RMul(R(bb + 1), p[a][bb + 1]) ELSE Zero)]]

\* a tensor-product space of order N, with or without boundary conditions
Space(N, constrained) == [N |-> N, constrained |-> constrained]
get_orthogonal(sp) == Space(sp.N, FALSE)

\* project(p, space): the part of p the space can represent; a space with
\* boundary conditions has two modes fewer along each axis
project(p, sp) ==
  LET cap == IF sp.constrained THEN sp.N - 3 ELSE sp.N - 1
  IN  [a \in Deg |-> [bb \in Deg |-> IF a <= cap /\ bb <= cap THEN p[a][bb] ELSE Zero]]

\* ------------------------------------------------------ stress operators
StressInputOK(mp, n) == mp.type = "tuple" /\ mp.eltype = "float" /\ Len(mp.val) = n

\* H[i][j] = project(Dx(u_hat[i], j), T_none)
DisplacementGradient(uh, T_none) ==
  [i \in Comps |-> [j \in Comps |-> project(Dx(uh.comp[i], j), T_none)]]


\* mutant: the transposed gradient left out of the strain
StrainNotSymmetrized(H) == [i \in Comps |-> [j \in Comps |-> H[i][j]]]

\* E[i][j] = 0.5 * (H[i][j] + H[j][i])
Strain(H) ==
  [i \in Comps |-> [j \in Comps |-> PScale(Rat(1, 2), PAdd(H[i][j], H[j][i]))]]

\* trE
Trace(E) == PSum([i \in Comps |-> E[i][i]])

\* the tensor returned by cauchy_stresses
cauchy_stresses(mp, uh) ==
  LET T_none == get_orthogonal(uh.space)
      la == mp.val[1]
      m == mp.val[2]
      E == Strain(DisplacementGradient(uh, T_none))
      trE == Trace(E)
  IN  [space |-> T_none,
       val |-> [i \in Comps |-> [j \in Comps |->
                  IF i = j
                    THEN PAdd(PScale(RMul(R(2), m), E[i][j]), PScale(la, trE))
                    ELSE PScale(RMul(R(2), m), E[i][j])]]]

\* Laplace[i]
Laplace(uh, T_none) ==
  [i \in Comps |-> PSum([j \in Comps |-> project(Dx(Dx(uh.comp[i], j), j), T_none)])]

\* GradDiv[i]
GradDiv(uh, T_none) ==
  [i \in Comps |-> PSum([j \in Comps |-> project(Dx(Dx(uh.comp[j], j), i), T_none)])]


\* mutant: the c4 term added without its zero test and without its factor
HyperEntryUnscaled(cs, uh, T_none, Lap, GD, i, j, k) ==
  LET half == Rat(1, 2)
      If(cond, p) == IF cond THEN <<p>> ELSE <<>>
  IN  PSum(
        If(i = j /\ cs[2] # Zero, PScale(RMul(half, cs[2]), Lap[k])) \o
        If(i = j /\ cs[3] # Zero, PScale(RMul(half, cs[3]), GD[k])) \o
        If(i = k /\ cs[2] # Zero, PScale(RMul(half, cs[2]), Lap[j])) \o
        If(i = k /\ cs[3] # Zero, PScale(RMul(half, cs[3]), GD[j])) \o
        If(j = k /\ cs[1] # Zero, PScale(cs[1], Lap[i])) \o
        <<project(Dx(Dx(uh.comp[i], j), k), T_none)>> \o
        If(cs[5] # Zero,
           PAdd(project(PScale(RMul(half, cs[5]), Dx(Dx(uh.comp[j], i), k)), T_none),
                project(PScale(RMul(half, cs[5]), Dx(Dx(uh.comp[k], i), j)), T_none))))

\* mutant: the c1 term weighted by one half like the c2 and c3 terms
HyperEntryHalfC1(cs, uh, T_none, Lap, GD, i, j, k) ==
  LET half == Rat(1, 2)
      If(cond, p) == IF cond THEN <<p>> ELSE <<>>
  IN  PSum(
        If(i = j /\ cs[2] # Zero, PScale(RMul(half, cs[2]), Lap[k])) \o
        If(i = j /\ cs[3] # Zero, PScale(RMul(half, cs[3]), GD[k])) \o
        If(i = k /\ cs[2] # Zero, PScale(RMul(half, cs[2]), Lap[j])) \o
        If(i = k /\ cs[3] # Zero, PScale(RMul(half, cs[3]), GD[j])) \o
        If(j = k /\ cs[1] # Zero, PScale(RMul(half, cs[1]), Lap[i])) \o
        If(cs[4] # Zero,
           project(PScale(cs[4], Dx(Dx(uh.comp[i], j), k)), T_none)) \o
        If(cs[5] # Zero,
           PAdd(project(PScale(RMul(half, cs[5]), Dx(Dx(uh.comp[j], i), k)), T_none),
                project(PScale(RMul(half, cs[5]), Dx(Dx(uh.comp[k], i), j)), T_none))))

\* the contributions added to T[i][j][k], in the order of the code
HyperEntry(cs, uh, T_none, Lap, GD, i, j, k) ==
  LET half == Rat(1, 2)
      If(cond, p) == IF cond THEN <<p>> ELSE <<>>
  IN  PSum(
        If(i = j /\ cs[2] # Zero, PScale(RMul(half, cs[2]), Lap[k])) \o
        If(i = j /\ cs[3] # Zero, PScale(RMul(half, cs[3]), GD[k])) \o
        If(i = k /\ cs[2] # Zero, PScale(RMul(half, cs[2]), Lap[j])) \o
        If(i = k /\ cs[3] # Zero, PScale(RMul(half, cs[3]), GD[j])) \o
        If(j = k /\ cs[1] # Zero, PScale(cs[1], Lap[i])) \o
        If(cs[4] # Zero,
           project(PScale(cs[4], Dx(Dx(uh.comp[i], j), k)), T_none)) \o
        If(cs[5] # Zero,
           PAdd(project(PScale(RMul(half, cs[5]), Dx(Dx(uh.comp[j], i), k)), T_none),
                project(PScale(RMul(half, cs[5]), Dx(Dx(uh.comp[k], i), j)), T_none))))

\* whether T[i][j][k] is still the float 0. it was initialised with
HyperUntouched(cs, i, j, k) ==
  ~ \/ (i = j /\ (cs[2] # Zero \/ cs[3] # Zero))
    \/ (i = k /\ (cs[2] # Zero \/ cs[3] # Zero))
    \/ (j = k /\ cs[1] # Zero)
    \/ cs[4] # Zero
    \/ cs[5] # Zero

\* the tensor returned by hyper_stresses
hyper_stresses(mp, uh) ==
  LET T_none == uh.space
      cs == mp.val
      Lap == Laplace(uh, T_none)
      GD == GradDiv(uh, T_none)
  IN  [space |-> T_none,
       val |-> [i \in Comps |-> [j \in Comps |-> [k \in Comps |->
                  HyperEntry(cs, uh, T_none, Lap, GD, i, j, k)]]],
       floats |-> {tr \in Triples : HyperUntouched(cs, tr[1], tr[2], tr[3])}]

\* divT3[i][j] before the second loop
Divergence(T, T_none) ==
  [i \in Comps |-> [j \in Comps |->
     PSum([k \in Comps |-> project(Dx(T[i][j][k], k), T_none)])]]

\* a list entry that still is the float 0. it was initialised with: a value
\* without coefficients, unlike every Function
FloatZero == <<>>

\* the first entry of T3, in the order of the loop, that is still a float
FirstFloat(floats) ==
  CHOOSE f \in floats :
    \A g \in floats :
      \/ f[1] < g[1]
      \/ f[1] = g[1] /\ f[2] < g[2]
      \/ f[1] = g[1] /\ f[2] = g[2] /\ f[3] <= g[3]

\* divT3 when the first loop raises on the float entry at: the entries of the
\* passes before it hold their sums, the others are still 0.
DivergenceUpTo(T, T_none, at) ==
  [i \in Comps |-> [j \in Comps |->
     IF i < at[1] \/ (i = at[1] /\ j < at[2])
       THEN PSum([k \in Comps |-> project(Dx(T[i][j][k], k), T_none)])
     ELSE IF i = at[1] /\ j = at[2] /\ at[3] > 1
       THEN PSum([k \in 1..(at[3] - 1) |-> project(Dx(T[i][j][k], k), T_none)])
     ELSE FloatZero]]

\* the terms project(Dx(T3[i][j][k], l), T_none)*n[k]*n[l], k outer, l inner
NormalTerms(T, n, T_none, i, j) ==
  [q \in 1..(Dim * Dim) |->
     LET k == ((q - 1) \div Dim) + 1
         l == ((q - 1) % Dim) + 1
     IN  PScale(n[l], PScale(n[k], project(Dx(T[i][j][k], l), T_none)))]

\* divnT3
NormalDivergence(T, n, T_none) ==
  [i \in Comps |-> [j \in Comps |-> PSum(NormalTerms(T, n, T_none, i, j))]]


\* mutant: the tangential part taken as the negated normal part
TangentialDivergenceNegated(T, n, T_none) ==
  [i \in Comps |-> [j \in Comps |-> PNeg(PSum(NormalTerms(T, n, T_none, i, j)))]]

\* divtT3: starts as divT3 and has every normal term subtracted
TangentialDivergence(T, n, T_none) ==
  [i \in Comps |-> [j \in Comps |->
     PSub(Divergence(T, T_none)[i][j], PSum(NormalTerms(T, n, T_none, i, j)))]]

\* t[i] = sum over j of (T2[i][j] - divnT3[i][j] - 2*divtT3[i][j])*n[j]
Traction(S2, dn, dt, n) ==
  [i \in Comps |->
     PSum([j \in Comps |->
       PScale(n[j], PSub(PSub(S2[i][j], dn[i][j]), PScale(R(2), dt[i][j])))])]

\* ------------------------------------------------- post-processing inputs
\* the zero field and the monomials of total degree 2..MaxDeg
SMonos ==
  {PZero} \cup
  {Mono(e[1], e[2]) : e \in {d \in Deg \X Deg : d[1] + d[2] >= 2 /\ d[1] + d[2] <= MaxDeg}}

SArg(type, eltype, val) == [type |-> type, eltype |-> eltype, val |-> val]
Field(constrained, p1, p2) ==
  [space |-> Space(MaxDeg + 1, constrained), comp |-> <<p1, p2>>]
Normals == {<<R(1), R(0)>>, <<R(0), R(1)>>, <<R(0), R(-1)>>, <<R(1), R(1)>>}

DefaultStressCall ==
  [ u_hat |-> Field(FALSE, Mono(2, 1), Mono(1, 2)),
    lame |-> SArg("tuple", "float", <<R(2), R(1)>>),
    cs |-> SArg("tuple", "float", <<R(1), R(2), R(1), R(2), R(1)>>),
    normal_vector |-> <<R(1), R(0)>> ]

\* every displacement field, on a free or a constrained space, every normal
StressCallsFields ==
  { [DefaultStressCall EXCEPT !.u_hat = Field(cn, p1, p2), !.normal_vector = n] :
      p1 \in SMonos, p2 \in SMonos, cn \in BOOLEAN, n \in Normals }

\* every zero pattern of c1..c5
StressCallsConstants ==
  { [DefaultStressCall EXCEPT
       !.u_hat = Field(cn, p[1], p[2]), !.normal_vector = n,
       !.cs = SArg("tuple", "float", cc)] :
      p \in {<<Mono(MaxDeg, 0), Mono(1, 1)>>, <<Mono(2, 1), Mono(1, 2)>>,
             <<Mono(0, 2), PZero>>},
      cn \in BOOLEAN, n \in Normals, cc \in [1..5 -> {R(0), R(2)}] }

\* Lame parameters
StressCallsLame ==
  { [DefaultStressCall EXCEPT
       !.u_hat = Field(FALSE, p1, p2),
       !.lame = SArg("tuple", "float", la)] :
      p1 \in SMonos, p2 \in SMonos,
      la \in {<<R(0), R(1)>>, <<R(1), R(3)>>, <<R(3), R(0)>>} }

\* ill-typed constants
StressCallsTypes ==
  { [DefaultStressCall EXCEPT
       !.lame = SArg(ty[1], ty[2], @.val), !.cs = SArg(ty[3], ty[4], @.val)] :
      ty \in {"tuple", "list"} \X {"float", "int"} \X {"tuple", "list"} \X {"float", "int"} }

StressCalls ==
  StressCallsFields \cup StressCallsConstants \cup StressCallsLame \cup StressCallsTypes

\* ---------------------------------------------------- post-processing steps
StressIdle ==
  /\ T2 = <<>> /\ T3 = <<>> /\ divT3 = <<>> /\ divnT3 = <<>> /\ divtT3 = <<>>
  /\ t = <<>>

\* T = cauchy_stresses(material_parameters, u_hat)
CallCauchyStresses ==
  /\ spc = "start"
  /\ IF StressInputOK(sargs.lame, 2)
       THEN /\ T2' = <<cauchy_stresses(sargs.lame, sargs.u_hat)>>
            /\ spc' = "cauchy_done"
       ELSE /\ spc' = "raised"
            /\ UNCHANGED T2
  /\ UNCHANGED <<sargs, T3, divT3, divnT3, divtT3, t>>
  /\ UNCHANGED solver_vars

\* T = hyper_stresses(material_parameters, u_hat)
CallHyperStresses ==
  /\ spc = "cauchy_done"
  /\ IF StressInputOK(sargs.cs, 5)
       THEN /\ T3' = <<hyper_stresses(sargs.cs, sargs.u_hat)>>
            /\ spc' = "hyper_done"
       ELSE /\ spc' = "raised"
            /\ UNCHANGED T3
  /\ UNCHANGED <<sargs, T2, divT3, divnT3, divtT3, t>>
  /\ UNCHANGED solver_vars

\* t = traction_vector_gradient(T2, T3, normal_vector).  An entry of T3 that
\* is still a float cannot be differentiated: the first loop raises on it,
\* with t = [0., 0.] and divT3 filled up to that pass.  divtT3 shares its rows
\* with divT3 (a shallow copy), so both end as the same tensor.
CallTractionVector ==
  /\ spc = "hyper_done"
  /\ IF T3[1].floats = {}
       THEN LET T_none == T2[1].space
                n == sargs.normal_vector
                dn == NormalDivergence(T3[1].val, n, T_none)
                dt == TangentialDivergence(T3[1].val, n, T_none)
            IN  /\ divnT3' = dn
                /\ divtT3' = dt
                /\ divT3' = dt
                /\ t' = <<Traction(T2[1].val, dn, dt, n)>>
                /\ spc' = "traction_done"
       ELSE /\ spc' = "raised"
            /\ t' = <<[i \in Comps |-> FloatZero]>>
            /\ divT3' = DivergenceUpTo(T3[1].val, T2[1].space, FirstFloat(T3[1].floats))
            /\ UNCHANGED <<divnT3, divtT3>>
  /\ UNCHANGED <<sargs, T2, T3>>
  /\ UNCHANGED solver_vars

vars == <<solver_vars, stress_vars>>

Init ==
  /\ pc = "check"
  /\ args \in Calls
  /\ SolverIdle
  /\ spc = "idle" /\ sargs = DefaultStressCall /\ StressIdle

Next ==
  \/ CheckInput
  \/ Nondimensionalize
  \/ BuildSpace
  \/ Assemble
  \/ Solve
  \/ Rescale
  \/ LogTime
  \/ ComputeError
  \/ Return

\* a call of one of the two solvers
Spec == Init /\ [][Next]_vars

InitStress ==
  /\ pc = "idle"
  /\ args = DefaultCall("cauchy")
  /\ SolverIdle
  /\ spc = "start" /\ sargs \in StressCalls /\ StressIdle

NextStress ==
  \/ CallCauchyStresses
  \/ CallHyperStresses
  \/ CallTractionVector

\* the post-processing of a displacement field
SpecStress == InitStress /\ [][NextStress]_vars

\* ------------------------------------------------------------- the claims
AfterNondim ==
  pc \in {"spaces", "assemble", "solve", "rescale", "time", "error", "return", "done"}
AfterSpaces ==
  pc \in {"assemble", "solve", "rescale", "time", "error", "return", "done"}
AfterAssemble == pc \in {"solve", "rescale", "time", "error", "return", "done"}
AfterSolve == pc \in {"rescale", "time", "error", "return", "done"}
AfterRescale == pc \in {"time", "error", "return", "done"}

IsLameGroup(term) == term.grp \in {"mu", "cross", "lam", "lam_mu"}

\* C1: once the operator list is assembled, its lambda/mu part is decided by
\* only_dirichlet_bcs alone, in both solvers: with the flag set it is the mu
\* grad-grad term followed by the single (lambda+mu) div-div term and holds no
\* cross term; with the flag clear it is the mu grad-grad term, exactly one
\* cross term with coefficient mu per ordered pair (i, j) (Dim*Dim of them),
\* and the single lambda div-div term, and holds no (lambda+mu) term.
C1_LamePartByFlag ==
  AfterAssemble =>
    LET lm == SelectSeq(matrices, IsLameGroup)
        GradGrad == {n \in 1..Len(lm) : lm[n].form = "grad_grad" /\ lm[n].coef = mu}
        Cross == {n \in 1..Len(lm) : lm[n].form = "dxu_i_j_dxv_j_i"}
        DivDiv == {n \in 1..Len(lm) : lm[n].form = "div_div"}
    IN  /\ GradGrad = {1}
        /\ Cardinality(DivDiv) = 1
        /\ IF only_dirichlet_bcs
             THEN /\ Len(lm) = 2
                  /\ lm[2].form = "div_div" /\ lm[2].coef = RAdd(lambd, mu)
                  /\ lm[2].grp = "lam_mu"
                  /\ Cross = {}
             ELSE /\ Len(lm) = Dim * Dim + 2
                  /\ Cardinality(Cross) = Dim * Dim
                  /\ \A p \in Pairs :
                       Cardinality({n \in Cross : lm[n].idx = p /\ lm[n].coef = mu}) = 1
                  /\ lm[Len(lm)].form = "div_div" /\ lm[Len(lm)].coef = lambd
                  /\ \A n \in 1..Len(lm) : lm[n].grp # "lam_mu"

\* C1 witness: a gradient-elasticity call assembled with the flag clear, and
\* its cross terms in the list
C1_Witness ==
  /\ pc = "solve" /\ args.solver = "gradient" /\ ~only_dirichlet_bcs
  /\ \E n \in 1..Len(matrices) : matrices[n].grp = "cross" /\ matrices[n].idx = <<2, 1>>

GroupOf(n) == <<"c1", "c2", "c3", "c4", "c5">>[n]
FormOf(n) ==
  <<"lap_lap", "lap_graddiv", "graddiv_graddiv", "dxxu_i_dxxv_i", "dxxu_j_dxxv_i">>[n]
\* the place of a group in the fixed order c1, c2, c3, c4, c5, lambda/mu
RankOf(g) ==
  CASE g = "c1" -> 1 [] g = "c2" -> 2 [] g = "c3" -> 3 [] g = "c4" -> 4
    [] g = "c5" -> 5 [] OTHER -> 6

\* C2: in solve_gradient_elasticity, a constant c1..c5 passed as exactly zero
\* has no term in the assembled list; a non-zero constant has its group
\* exactly once (one term for each of c1, c2, c3; one term per ordered index
\* triple for each of c4, c5), every term carrying the dimensionless
\* constant; and the groups appear in the order c1, c2, c3, c4, c5 followed
\* by the lambda/mu terms.
C2_ZeroConstantsSkipped ==
  (AfterAssemble /\ args.solver = "gradient") =>
    LET raw == args.material_parameters.val
        InGroup(n) == {m \in 1..Len(matrices) : matrices[m].grp = GroupOf(n)}
    IN  /\ \A n \in 1..5 :
             /\ raw[n + 2] = Zero => InGroup(n) = {}
             /\ raw[n + 2] # Zero =>
                  /\ Cardinality(InGroup(n)) = (IF n <= 3 THEN 1 ELSE Dim * Dim * Dim)
                  /\ \A m \in InGroup(n) :
                       /\ matrices[m].form = FormOf(n)
                       /\ matrices[m].coef = c[n] /\ c[n] # Zero
                  /\ n >= 4 =>
                       \A tr \in Triples :
                         Cardinality({m \in InGroup(n) : matrices[m].idx = tr}) = 1
        /\ \A m1, m2 \in 1..Len(matrices) :
             m1 < m2 => RankOf(matrices[m1].grp) <= RankOf(matrices[m2].grp)
        /\ \A m \in 1..Len(matrices) : matrices[m].coef # Zero \/ IsLameGroup(matrices[m])

\* C2 witness: c1 and c4 zero, c2 and c5 not, and the list assembled
C2_Witness ==
  /\ pc = "solve" /\ args.solver = "gradient"
  /\ args.material_parameters.val[3] = Zero
  /\ args.material_parameters.val[6] = Zero
  /\ args.material_parameters.val[4] # Zero
  /\ args.material_parameters.val[7] # Zero
  /\ \E m \in 1..Len(matrices) : matrices[m].grp = "c5"

PlainClass(s) == IF s = "cauchy" THEN "ShenDirichlet" ELSE "ShenBiharmonic"

C3_FinalFlags ==
  AfterSpaces =>
    /\ Len(bases) = Dim * Dim
    /\ only_dirichlet_bcs <=>
         \A n \in 1..Len(bases) : bases[n].class = PlainClass(args.solver)
    /\ nonhomogeneous_bcs <=>
         \E n \in 1..Len(bases) : bases[n].has_nonhomogeneous_bcs

C3_Monotone ==
  pc = "spaces" =>
    /\ only_dirichlet_bcs' => only_dirichlet_bcs
    /\ nonhomogeneous_bcs => nonhomogeneous_bcs'

\* C3: after the loop has built all Dim*Dim bases, only_dirichlet_bcs holds
\* iff every basis is of the plain class of the solver (ShenDirichlet for
\* Cauchy, ShenBiharmonic for gradient elasticity) and nonhomogeneous_bcs
\* holds iff some basis reports non-zero boundary data; during the loop
\* only_dirichlet_bcs never goes from false to true and nonhomogeneous_bcs
\* never from true to false.
C3_FlagsAggregate == []C3_FinalFlags /\ [][C3_Monotone]_vars

\* C3 witness: the loop is over with only_dirichlet_bcs clear and
\* nonhomogeneous_bcs set although the last basis built is plain and
\* homogeneous
C3_Witness ==
  /\ pc = "assemble" /\ ~only_dirichlet_bcs /\ nonhomogeneous_bcs
  /\ bases[Dim * Dim].class = PlainClass(args.solver)
  /\ ~bases[Dim * Dim].has_nonhomogeneous_bcs

FreeSlots == 1..N_
BndSlots == (N_ + 1)..CoefLen(N_)
\* the value prescribed to component i at slot N + s, read from the
\* dimensionless boundary conditions
Prescribed(i, j, e, m) ==
  LET vals == bcs_dimless[i][j].vals
  IN  IF e <= Len(vals) THEN vals[e][m + 1] ELSE Zero

\* C4: the solve step branches on nonhomogeneous_bcs alone.  With the flag
\* clear no boundary operator, boundary field or extra right-hand side is
\* formed and M u_hat = b on the free coefficients.  With the flag set uh_hat
\* holds the prescribed boundary coefficients and zero free coefficients,
\* b_add is the boundary operator applied to -uh_hat, M (u_hat - uh_hat) =
\* b + b_add on the free coefficients, and the boundary coefficients of
\* u_hat are those of uh_hat.
C4_SolveBranch ==
  AfterSolve =>
    LET S == DiagSum(matrices)
    IN  IF ~nonhomogeneous_bcs
          THEN /\ bc_mats = <<>> /\ uh_hat = <<>> /\ b_add = <<>>
               /\ \A i \in Comps :
                    /\ \A k \in FreeSlots : RMul(S, u_hat[i][k]) = b[i][k]
                    /\ \A k \in BndSlots : u_hat[i][k] = Zero
          ELSE /\ Len(bc_mats) = Len(matrices)
               /\ \A i \in Comps :
                    /\ \A k \in FreeSlots : uh_hat[i][k] = Zero
                    /\ \A j \in Comps, e \in 1..4, m \in 0..1 :
                         uh_hat[i][BndSlot(N_, j, e, m)] = Prescribed(i, j, e, m)
                    /\ \A k \in FreeSlots :
                         /\ RAdd(b_add[i][k],
                                 RMul(DiagSum(bc_mats),
                                      RSum([s \in 1..NBnd |-> uh_hat[i][N_ + s]])))
                              = Zero
                         /\ RMul(S, RSub(u_hat[i][k], uh_hat[i][k]))
                              = RAdd(b[i][k], b_add[i][k])
                    /\ \A k \in BndSlots :
                         /\ b_add[i][k] = Zero
                         /\ u_hat[i][k] = uh_hat[i][k]

\* C4 witness: a solve with non-zero boundary data whose extra right-hand
\* side is not zero
C4_Witness ==
  /\ pc = "rescale" /\ nonhomogeneous_bcs
  /\ \E i \in Comps, k \in FreeSlots : b_add[i][k] # Zero /\ b[i][k] # Zero
  /\ \E i \in Comps, k \in BndSlots : u_hat[i][k] # Zero

\* the dimensionless material constants lambd, mu, c1..c5 in argument order
DimlessParams == <<lambd, mu>> \o c

C5_ScaledByModulus ==
  LET raw == args.material_parameters.val
  IN  /\ RMul(lambd, M_) = raw[1]
      /\ RMul(mu, M_) = raw[2]
      /\ args.solver = "cauchy" => c = <<>>

\* C5 (as amended): lambda and mu are the arguments divided by the reference
\* modulus M only, and in solve_gradient_elasticity each of the five
\* constants c1..c5 is the argument divided by M and by L squared.
C5_NondimMaterial ==
  AfterNondim =>
    /\ C5_ScaledByModulus
    /\ args.solver = "gradient" =>
         /\ Len(c) = 5
         /\ \A n \in 1..5 :
              RMul(RMul(c[n], M_), RMul(L_, L_)) = args.material_parameters.val[n + 2]

\* C5 as stated: exactly four of the constants are divided by L squared as well
C5_FourLengthSquared ==
  (AfterNondim /\ args.solver = "gradient" /\ L_ # R(1)
     /\ \A n \in 1..7 : args.material_parameters.val[n] # Zero) =>
    /\ C5_ScaledByModulus
    /\ Cardinality({n \in 1..7 :
         RMul(RMul(DimlessParams[n], M_), RMul(L_, L_))
           = args.material_parameters.val[n]}) = 4

\* C5 witness: a gradient call nondimensionalized with L # 1, M # 1 and all
\* five constants non-zero
C5_Witness ==
  /\ pc = "spaces" /\ args.solver = "gradient"
  /\ L_ # R(1) /\ M_ # R(1)
  /\ \A n \in 1..7 : args.material_parameters.val[n] # Zero

\* C6: the field of either solver lives on the space built from the original
\* domain and the original boundary-condition entries, its coefficients are
\* the solved dimensionless coefficients times nondim_disp, index for index,
\* and it is the field returned.
C6_PhysicalField ==
  AfterRescale =>
    /\ Len(u) = 1
    /\ \A i \in Comps, j \in Comps :
         /\ BasisOf(u[1].space, i, j).domain = args.dom.val[j]
         /\ BasisOf(u[1].space, i, j).bc = args.boundary_conditions.val[i][j]
         /\ BasisOf(u[1].space, i, j).N = N_
    /\ DOMAIN u[1].coef = Comps
    /\ \A i \in Comps :
         /\ DOMAIN u[1].coef[i] = DOMAIN u_hat[i]
         /\ \A k \in DOMAIN u_hat[i] :
              /\ u[1].coef[i][k] = RMul(U_, u_hat[i][k])
              /\ RDiv(u[1].coef[i][k], U_) = u_hat[i][k]
    /\ pc = "done" => returned = u

\* C6 witness: a returned field with U # 1, L # 1, a tagged entry among the
\* boundary conditions and a non-zero coefficient
C6_Witness ==
  /\ pc = "done" /\ U_ # R(1) /\ L_ # R(1)
  /\ \E i \in Comps, j \in Comps :
       /\ args.boundary_conditions.val[i][j].kind = "list"
       /\ bcs_dimless[i][j] # args.boundary_conditions.val[i][j]
  /\ dom_dimless # args.dom.val
  /\ \E i \in Comps : \E k \in DOMAIN u_hat[i] :
       u_hat[i][k] # Zero /\ returned[1].coef[i][k] # u_hat[i][k]

\* an argument list that breaks the input contract
ContractViolation(a) ==
  \/ a.N.type # "int"
  \/ a.dom.type # "tuple"
  \/ a.boundary_conditions.type # "tuple"
  \/ a.body_forces.type # "tuple"
  \/ a.material_parameters.type # "tuple"
  \/ a.nondim_disp.type # "float"
  \/ a.nondim_length.type # "float"
  \/ a.nondim_mat_param.type # "float"
  \/ (a.solver = "cauchy" /\ Len(a.material_parameters.val) # 2)
  \/ (a.solver = "gradient" /\ Len(a.material_parameters.val) # 7)
  \/ (a.compute_error /\ a.u_ana.type = "list")
  \/ \E i \in Comps, j \in Comps :
       LET e == a.boundary_conditions.val[i][j]
       IN  e.kind = "list" /\ (e.labeltype # "str" \/ e.valstype # "tuple")

\* C10: a call that violates the input contract never gets past the asserts:
\* no function space is built, no operator assembled, no log line written,
\* no field formed or returned.
C10_ContractViolationAborts ==
  ContractViolation(args) =>
    /\ pc \in {"check", "nondim", "aborted"}
    /\ body_forces_dimless = <<>>
    /\ bases = <<>> /\ matrices = <<>> /\ b = <<>> /\ u_hat = <<>>
    /\ log = <<>> /\ u = <<>> /\ returned = <<>>

\* C10 witness: a call aborted on a material-parameter tuple of the wrong length
C10_Witness ==
  /\ pc = "aborted"
  /\ args.solver = "gradient" /\ Len(args.material_parameters.val) = 2
  /\ args.N.type = "int" /\ args.dom.type = "tuple"

\* the derivative of displacement component i along axis j, on the
\* unconstrained companion space
HOf(i, j) == project(Dx(sargs.u_hat.comp[i], j), get_orthogonal(sargs.u_hat.space))

\* C7: the tensor returned by cauchy_stresses is symmetric, T[i][j] = T[j][i],
\* with T[i][j] = mu*(H[i][j] + H[j][i]) off the diagonal and
\* T[i][i] = 2*mu*H[i][i] + lambda*(H[1][1] + ... + H[dim][dim]) on it.
C7_CauchyStressSymmetric ==
  spc \in {"cauchy_done", "hyper_done", "traction_done"} =>
    LET la == sargs.lame.val[1]
        m == sargs.lame.val[2]
        T == T2[1].val
        div == PSum([k \in Comps |-> HOf(k, k)])
    IN  \A i \in Comps, j \in Comps :
          /\ T[i][j] = T[j][i]
          /\ i # j => T[i][j] = PScale(m, PAdd(HOf(i, j), HOf(j, i)))
          /\ i = j => T[i][j] = PAdd(PScale(RMul(R(2), m), HOf(i, i)), PScale(la, div))

\* C7 witness: a stress tensor of a field whose gradient is not symmetric and
\* whose shear stress is not zero
C7_Witness ==
  /\ spc = "cauchy_done"
  /\ HOf(1, 2) # HOf(2, 1)
  /\ T2[1].val[1][2] # PZero /\ T2[1].val[1][1] # T2[1].val[2][2]
  /\ sargs.lame.val[1] # Zero

AllConstantsZero == \A n \in 1..5 : sargs.cs.val[n] = Zero

\* C8: hyper_stresses called with c1 = c2 = c3 = c4 = c5 = 0 returns a rank-3
\* tensor whose Dim*Dim*Dim entries are all zero.
C8_HyperStressZeroCollapse ==
  (spc \in {"hyper_done", "traction_done"} /\ AllConstantsZero) =>
    /\ DOMAIN T3[1].val = Comps
    /\ \A tr \in Triples : T3[1].val[tr[1]][tr[2]][tr[3]] = PZero

\* C8 witness: the tensor of a field with non-zero second derivatives, all
\* five constants zero
C8_Witness ==
  /\ spc = "hyper_done" /\ AllConstantsZero
  /\ \E i \in Comps, j \in Comps, k \in Comps :
       Dx(Dx(sargs.u_hat.comp[i], j), k) # PZero
  /\ \E i \in Comps : Laplace(sargs.u_hat, sargs.u_hat.space)[i] # PZero

\* sum over k and l of d(T3[i][j][k])/dx_l * n_k * n_l
NormalPart(i, j) ==
  PSum([q \in 1..(Dim * Dim) |->
     LET k == ((q - 1) \div Dim) + 1
         l == ((q - 1) % Dim) + 1
     IN  PScale(RMul(sargs.normal_vector[k], sargs.normal_vector[l]),
                project(Dx(T3[1].val[i][j][k], l), T2[1].space))])

\* sum over k of d(T3[i][j][k])/dx_k
TotalDivergence(i, j) ==
  PSum([k \in Comps |-> project(Dx(T3[1].val[i][j][k], k), T2[1].space)])

\* C9 (as amended): in traction_vector_gradient divnT3[i][j] is the sum over
\* k and l of d(T3[i][j][k])/dx_l * n_k * n_l, and the tangential term is the
\* divergence less the normal term: divtT3[i][j] = divT3[i][j] - divnT3[i][j]
\* with divT3[i][j] the sum over k of d(T3[i][j][k])/dx_k.
C9_TangentialIsDivergenceLessNormal ==
  spc = "traction_done" =>
    \A i \in Comps, j \in Comps :
      /\ divnT3[i][j] = NormalPart(i, j)
      /\ PAdd(divtT3[i][j], divnT3[i][j]) = TotalDivergence(i, j)

\* C9 as stated: divtT3[i][j] = -divnT3[i][j]
C9_TangentialIsNegatedNormal ==
  spc = "traction_done" =>
    \A i \in Comps, j \in Comps :
      /\ divnT3[i][j] = NormalPart(i, j)
      /\ divtT3[i][j] = PNeg(divnT3[i][j])

\* C9 witness: a traction computed from a hyper-stress whose divergence and
\* whose normal term are both non-zero and differ
C9_Witness ==
  /\ spc = "traction_done"
  /\ \E i \in Comps, j \in Comps :
       /\ TotalDivergence(i, j) # PZero
       /\ divnT3[i][j] # PZero
       /\ divnT3[i][j] # TotalDivergence(i, j)

\* C11: hyper_stresses and traction_vector_gradient never return a tensor or
\* a traction computed on a boundary-constrained space: whenever a hyper-stress
\* tensor has been returned it lives on a space without boundary conditions,
\* and a traction is only ever derived from such a tensor.
C11_NeverOnConstrainedSpace ==
  /\ T3 # <<>> => ~T3[1].space.constrained
  /\ spc = "traction_done" =>
       (~T3[1].space.constrained /\ ~T2[1].space.constrained)

\* what the diagnostic steps (timing log, residual check, analytical-error
\* check) may do: append to the log, and only when their switch is set
C12_DiagnosticsFrame ==
  pc \in {"time", "error"} =>
    /\ u' = u /\ u_hat' = u_hat /\ returned' = returned
    /\ Len(log') >= Len(log) /\ SubSeq(log', 1, Len(log)) = log
    /\ (pc = "time" /\ ~args.measure_time) => log' = log
    /\ (pc = "error" /\ ~args.compute_error) => log' = log
    /\ (pc = "error" /\ args.u_ana.type = "NoneType") =>
         Len(log') <= Len(log) + 1

\* C12: the field a solver call returns does not depend on compute_error,
\* u_ana or measure_time: it is the solved coefficients times nondim_disp on
\* the physical space whatever their values, and the timing log, the residual
\* check and the analytical-error check only append to the diagnostic files,
\* leaving the field and the solved coefficients as they were.
C12_DiagnosticsObservational ==
  /\ [](pc = "done" =>
          returned = <<[space |-> PhysicalSpace(args), coef |-> CScale(u_hat, U_)]>>)
  /\ [][C12_DiagnosticsFrame]_vars

\* C12 witness: a call with all three diagnostics on that wrote its three
\* lines and returned a non-zero field scaled by nondim_disp # 1
C12_Witness ==
  /\ pc = "done"
  /\ args.measure_time /\ args.compute_error /\ args.u_ana.type = "tuple"
  /\ log = <<"N_time.dat", "N_errorLameNavier.dat", "N_error_u_ana.dat">>
  /\ U_ # R(1)
  /\ \E i \in Comps : \E k \in DOMAIN u_hat[i] :
       u_hat[i][k] # Zero /\ returned[1].coef[i][k] = RMul(U_, u_hat[i][k])

\* the Laplacian and grad(div u) of the field handed to hyper_stresses
LapOf(i) == Laplace(sargs.u_hat, sargs.u_hat.space)[i]
GradDivOf(i) == GradDiv(sargs.u_hat, sargs.u_hat.space)[i]

\* the part of T[i][j][k] that c1, c2 and c3 make up when the c1 term has
\* weight w1: c2 and c3 on i = j and on i = k with weight one half, c1 on j = k
LowerChannels(w1, i, j, k) ==
  LET cs == sargs.cs.val
      half == Rat(1, 2)
      On(cond, p) == IF cond THEN p ELSE PZero
  IN  PSum(<<
        On(i = j, PScale(RMul(half, cs[2]), LapOf(k))),
        On(i = j, PScale(RMul(half, cs[3]), GradDivOf(k))),
        On(i = k, PScale(RMul(half, cs[2]), LapOf(j))),
        On(i = k, PScale(RMul(half, cs[3]), GradDivOf(j))),
        On(j = k, PScale(RMul(w1, cs[1]), LapOf(i))) >>)

\* the part of T[i][j][k] that c4 and c5 make up
UpperChannels(i, j, k) ==
  LET cs == sargs.cs.val
      sp == sargs.u_hat.space
      uh == sargs.u_hat.comp
  IN  PSum(<<
        project(PScale(cs[4], Dx(Dx(uh[i], j), k)), sp),
        project(PScale(RMul(Rat(1, 2), cs[5]), Dx(Dx(uh[j], i), k)), sp),
        project(PScale(RMul(Rat(1, 2), cs[5]), Dx(Dx(uh[k], i), j)), sp) >>)

\* C13 (as amended): in hyper_stresses every contribution of c1, c2 and c3 to
\* T[i][j][k] is gated on an index coincidence; c2 and c3 contribute on i = j
\* and on i = k, each time one half of the constant times a component of the
\* Laplacian or of grad(div u); c1 contributes on j = k only and with full
\* weight, c1 times Laplace[i].
C13_HalfWeightedExceptC1 ==
  spc \in {"hyper_done", "traction_done"} =>
    \A i \in Comps, j \in Comps, k \in Comps :
      T3[1].val[i][j][k] = PAdd(LowerChannels(R(1), i, j, k), UpperChannels(i, j, k))

\* C13 as stated: the c1 contribution is half-weighted too
C13_AllHalfWeighted ==
  spc \in {"hyper_done", "traction_done"} =>
    \A i \in Comps, j \in Comps, k \in Comps :
      T3[1].val[i][j][k] =
        PAdd(LowerChannels(Rat(1, 2), i, j, k), UpperChannels(i, j, k))

\* C13 witness: a hyper-stress with c1, c2, c3 non-zero and c4 = c5 = 0 whose
\* entry with j = k only holds c1 times a non-zero Laplace component, and
\* whose entry with i = j only holds the half-weighted c2 and c3 pieces
C13_Witness ==
  /\ spc = "hyper_done"
  /\ \A n \in 1..3 : sargs.cs.val[n] # Zero
  /\ sargs.cs.val[4] = Zero /\ sargs.cs.val[5] = Zero
  /\ LapOf(1) # PZero /\ LapOf(2) # PZero /\ GradDivOf(2) # PZero
  /\ T3[1].val[1][2][2] = PScale(sargs.cs.val[1], LapOf(1))
  /\ T3[1].val[1][1][2] =
       PAdd(PScale(RMul(Rat(1, 2), sargs.cs.val[2]), LapOf(2)),
            PScale(RMul(Rat(1, 2), sargs.cs.val[3]), GradDivOf(2)))

\* the value of the expression v = c0 + c1*x at the coordinate x0
EvalAt(v, x0) == RAdd(v[1], RMul(v[2], x0))
SamplePoints == {R(0), R(1), R(-2)}

\* out is v with the coordinate replaced by coordinate*L, then divided by U
IsRescaled(out, v) ==
  \A x0 \in SamplePoints :
    EvalAt(out, x0) = RDiv(EvalAt(v, RMul(x0, L_)), U_)

\* outs are the values vs, one for one, each rescaled
AreRescaled(outs, vs) ==
  /\ Len(outs) = Len(vs)
  /\ \A n \in 1..Len(vs) : IsRescaled(outs[n], vs[n])

\* C14: for every (component, axis) entry of the boundary-condition matrix the
\* dimensionless matrix holds, at the same place: for a tuple of Dirichlet
\* values, the tuple of the values with the coordinate replaced by
\* coordinate*L and then divided by U; for a tagged entry, the same label
\* with the values scaled that way; for a named condition or None, the entry
\* itself.  The matrix keeps its dim x dim shape.
C14_BoundaryDataRescaled ==
  AfterNondim =>
    /\ DOMAIN bcs_dimless = Comps
    /\ \A i \in Comps :
         /\ DOMAIN bcs_dimless[i] = Comps
         /\ \A j \in Comps :
              LET e == args.boundary_conditions.val[i][j]
                  d == bcs_dimless[i][j]
              IN  CASE e.kind = "tuple" ->
                         /\ d.kind = "tuple"
                         /\ AreRescaled(d.vals, e.vals)
                    [] e.kind = "list" ->
                         /\ d.kind = "tagged"
                         /\ d.label = e.label
                         /\ AreRescaled(d.vals, e.vals)
                    [] OTHER -> d = e

\* C14 witness: a matrix holding a tagged entry, a value tuple, a named
\* condition and None, nondimensionalized with L # 1 and U # 1, in which a
\* coordinate-dependent value changed
C14_Witness ==
  /\ pc = "spaces" /\ L_ # R(1) /\ U_ # R(1)
  /\ \E i \in Comps, j \in Comps :
       /\ args.boundary_conditions.val[i][j].kind = "list"
       /\ args.boundary_conditions.val[i][j].vals[1][2] # Zero
       /\ bcs_dimless[i][j].vals # args.boundary_conditions.val[i][j].vals
  /\ \E i \in Comps, j \in Comps :
       /\ args.boundary_conditions.val[i][j].kind = "tuple"
       /\ bcs_dimless[i][j] # args.boundary_conditions.val[i][j]
  /\ \E i \in Comps, j \in Comps : bcs_dimless[i][j] = BCStr("upperdirichlet")
  /\ \E i \in Comps, j \in Comps : bcs_dimless[i][j] = BCNone

\* the steps of a solver call, in the order of the code
StepOrder ==
  <<"check", "nondim", "spaces", "assemble", "solve", "rescale", "time",
    "error", "return", "done">>
StepRank(p) == CHOOSE n \in 1..Len(StepOrder) : StepOrder[n] = p

\* a step stays in its stage, moves to the next one, or raises
C15_NextStage ==
  \/ pc' = "aborted"
  \/ StepRank(pc') \in {StepRank(pc), StepRank(pc) + 1}

\* what the solver produced: the solution of the assembled system
SolverOutput ==
  IF nonhomogeneous_bcs
    THEN CAdd(solve(matrices, CAdd(b, b_add), N_), uh_hat)
    ELSE solve(matrices, b, N_)

\* the lines of the error evaluation
ErrorLines == {"N_errorLameNavier.dat", "N_errorBalanceLinMom.dat", "N_error_u_ana.dat"}

\* each stage works on what the stage before it has completed, and from the
\* solve on u_hat is the solver's output
C15_StagesInOrder ==
  /\ bases # <<>> => (bcs_dimless # <<>> /\ dom_dimless # <<>>)
  /\ matrices # <<>> => Len(bases) = Dim * Dim
  /\ u_hat # <<>> => (matrices # <<>> /\ b # <<>>)
  /\ u # <<>> => u_hat # <<>>
  /\ (\E n \in 1..Len(log) : log[n] \in ErrorLines) => u # <<>>
  /\ returned # <<>> => pc = "done"
  /\ AfterSolve => u_hat = SolverOutput

\* C15: a solver call runs nondimensionalize, build spaces, assemble, solve,
\* rescale, error evaluation in this order, and the rescale step leaves the
\* dimensionless coefficients u_hat as the solver produced them, so the error
\* checks after it read the solver's output.
C15_PipelineOrder ==
  /\ []C15_StagesInOrder
  /\ [][C15_NextStage]_vars
  /\ [][u_hat # <<>> => u_hat' = u_hat]_vars

\* C15 witness: the error evaluation has run after a rescale by
\* nondim_disp # 1 of a non-zero solution, which u_hat still holds
C15_Witness ==
  /\ pc = "return" /\ args.compute_error /\ U_ # R(1)
  /\ \E n \in 1..Len(log) : log[n] \in ErrorLines
  /\ \E i \in Comps : \E k \in DOMAIN u_hat[i] :
       /\ u_hat[i][k] # Zero
       /\ u[1].coef[i][k] # u_hat[i][k]
       /\ u_hat[i][k] = SolverOutput[i][k]

====
